---- MODULE Spec2Model ----
(***************************************************************************)
(* The plan / execute / process / reflect / evaluate loop of               *)
(* generalist.agents.workflows (AgentWorkflow and its three subclasses),   *)
(* with the registry of tool output kinds and the temporary-file store     *)
(* that process_tool_output writes FILE outputs to.                        *)
(*                                                                         *)
(* Python strings that the code formats or compares (tool output, link,    *)
(* message content, prompts) are sequences of tokens: "" is << >>,         *)
(* concatenation is \o.  Names used only as keys (tool names, the task,    *)
(* plan and reflection texts) are TLA+ strings.                            *)
(***************************************************************************)
EXTENDS Integers, Sequences, FiniteSets, TLC

VARIABLES
    variant,        \* the workflow class that was constructed
    tools,          \* self.tools
    graph,          \* self.graph: no attribute, None, or the compiled graph
    state,          \* the AgentState dict the graph nodes read and write
    pc,             \* position of the run in the graph
    error,          \* the exception that ended the run, if any
    fs,             \* the temporary-file directory: name -> stored text
    builds,         \* calls of build_compile so far
    others,         \* FILE writes of concurrent runs into the same directory
    browser,        \* the shared ChromeBrowser and the sessions that drive it
    twin,           \* two workflows of one process and the list objects they hold
    browsers,       \* two ChromeBrowser instances and the class-level opened_tabs
    chat,           \* one LLMSession: past_questions_answers and the call under way
    call,           \* one call of a tool function: its arguments, position and result
    hist            \* record of what the run has done (for the properties)

vars == <<variant, tools, graph, state, pc, error, fs, builds, others, browser, twin, browsers, chat, call, hist>>

------------------------------------------------------------------------------
(* Bounds of the model *)

NumTmpNames == 8
MaxBuilds == 1
MaxOtherWrites == 1
MaxRaceIter == 1
MaxActivations == 2
MaxCalls == 3
MaxTextLen == 3
MaxResources == 3
MaxPlanLen == 3

(* Inputs *)

Tasks == {"find X"}

\* What predict_and_call returns as the output of a tool that raised.
ToolErrorText == <<"Encountered error: ", "boom">>

\* Tool outputs: a result, or the error text of a tool that raised.
Outputs == {<<"out1">>, ToolErrorText}
\* Texts the planning oracle can return: a plan, or no text at all.
PlanTexts == {"plan", ""}
ReflectionTexts == {"reflection"}

\* The i-th candidate name of the temporary-file directory.
TmpName(i) == <<"/tmp/tmp", ToString(i)>>

\* What the directory can hold when the workflow is constructed: nothing,
\* or a file of another process.
InitialDirs == { << >>, [n \in {TmpName(1)} |-> <<"foreign">>] }

------------------------------------------------------------------------------
(* Program constants *)

MAX_STEPS == 5
MAX_STEPS_coder == 4
MAX_STEPS_web_search == 1
MAX_STEPS_text_processor == 1

STRING_TOOL_OUTPUT == "string"
FILE_TOOL_OUTPUT == "file"

None == "None"
Unset == "<no attribute>"
Compiled == "CompiledStateGraph"
NoError == "<none>"

Variants == {"AgentWorkflow", "CodeWriterExecutorWorkflow",
             "DeepWebSearchWorkflow", "UnstructuredTextProcessorWorkflow"}

\* The cap each workflow module declares.
DeclaredMaxSteps(v) ==
    CASE v = "AgentWorkflow" -> MAX_STEPS
      [] v = "CodeWriterExecutorWorkflow" -> MAX_STEPS_coder
      [] v = "DeepWebSearchWorkflow" -> MAX_STEPS_web_search
      [] v = "UnstructuredTextProcessorWorkflow" -> MAX_STEPS_text_processor

\* tools/__init__.py MAPPING: tool name -> output kind.
MAPPING ==
    [n \in {"do_table_eda", "write_code", "execute_code", "task_completed"}
        |-> STRING_TOOL_OUTPUT]

\* The entry of web_search_tool, which workflow_web_search imports from
\* generalist.tools.
WebSearchMapping == [n \in {"web_search"} |-> FILE_TOOL_OUTPUT]

Registry == [n \in DOMAIN MAPPING \cup DOMAIN WebSearchMapping |->
                IF n \in DOMAIN MAPPING THEN MAPPING[n] ELSE WebSearchMapping[n]]

get_tool_type_file(tool_name) == FILE_TOOL_OUTPUT

get_tool_type(tool_name) == Registry[tool_name]

\* The class attribute `tools` of each subclass.
ClassTools(v) ==
    CASE v = "CodeWriterExecutorWorkflow" -> <<"do_table_eda", "write_code", "execute_code">>
      [] v = "DeepWebSearchWorkflow" -> <<"web_search">>
      [] v = "UnstructuredTextProcessorWorkflow" -> << >>

\* The class attribute `graph`: None in the subclasses, only annotated in the base.
ClassGraph(v) == IF v = "AgentWorkflow" THEN Unset ELSE None

\* Tool lists a caller hands to the base class.
BaseToolLists == { <<"write_code", "web_search">> }

\* A Message that does not say which tool provided it.
Message_anonymous(provided_by, link, content) ==
    [provided_by |-> "tool", link |-> link, content |-> content, metadata |-> << >>]

Message(provided_by, link, content) ==
    [provided_by |-> provided_by, link |-> link, content |-> content, metadata |-> << >>]

SeedContexts == { << >>, << Message("user", <<"/data/file.csv">>, <<"file provided with the task">>) >> }

\* AgentState(step=0, task=task, context=context, answers=None, plan=None, reflection=None)
NewAgentState(task, context) ==
    [step |-> 0, task |-> task, context |-> context,
     answers |-> None, plan |-> None, reflection |-> None]

\* No judge reply received (yet) in this iteration.
NoReply == [json |-> FALSE, completed |-> "<no reply>"]

NewHist(task, context, ts) ==
    [task0 |-> task, ctx0 |-> context, tools0 |-> ts, planTools |-> << >>,
     iter |-> 0, itersCompleted |-> 0, stepAtIterStart |-> 0,
     planCalls |-> 0, toolCalls |-> 0, toolCallsIter |-> 0,
     selRequests |-> << >>, selOutcomes |-> << >>, toolNames |-> << >>,
     judgeCalls |-> 0, judgeCallsIter |-> 0, decisions |-> << >>,
     judgeReply |-> NoReply, judgePrompt |-> NoReply,
     planAnswer |-> NoReply, planCallsIter |-> 0,
     refs |-> << >>,
     lastStage |-> "init"]

------------------------------------------------------------------------------
(* The shared browser: browser/__init__.py *)

\* The session ids of BRAVE_SEARCH_SESSION, CHATGPT_SESSION, DEEPSEEK_SESSION.
Sessions == {"deep_web_search", "closed_ai", "deep_seek"}

\* The collaborator class of each session.
Collaborator(s) ==
    CASE s = "deep_web_search" -> "BraveBrowser"
      [] s = "closed_ai" -> "ChatGPT"
      [] s = "deep_seek" -> "DeepSeek"

\* llm_chat_url of the two LLMSession classes; base_url + query for Brave.
Url(s) ==
    CASE s = "deep_web_search" -> "https://search.brave.com/search?q="
      [] s = "closed_ai" -> "https://chat.openai.com/chat"
      [] s = "deep_seek" -> "https://chat.deepseek.com/"

\* tab_id: session_id for BraveBrowser, llm_chat_url + session_id for LLMSession.
TabId(s) == IF Collaborator(s) = "BraveBrowser" THEN <<s>> ELSE <<Url(s), s>>

\* chrome_browser = ChromeBrowser(): one window, opened_tabs = {}; the three
\* sessions constructed on it, none activated yet.
NewBrowser ==
    [opened_tabs |-> << >>,
     window_handles |-> <<1>>,
     current |-> 1,
     pages |-> <<"about:blank">>,
     sess |-> [s \in Sessions |-> [pc |-> "idle", windows |-> << >>, activations |-> 0,
                                    tabs |-> << >>]]]

------------------------------------------------------------------------------
(* Two ChromeBrowser instances: browser/browser.py *)

Instances == {1, 2}

\* The window handles of a driver are its own: <<instance, number>>.
Handle(i, n) == <<i, n>>

\* b1 = ChromeBrowser(); b2 = ChromeBrowser(profile): each has its driver
\* with one window; opened_tabs is an attribute of the class, one dict for
\* both.  On each a ChatGPT session with the same session id is constructed.
TwoBrowsers ==
    [opened_tabs |-> << >>,
     driver |-> [i \in Instances |->
                   [window_handles |-> << Handle(i, 1) >>, current |-> Handle(i, 1)]],
     sess |-> [i \in Instances |->
                 [pc |-> "idle", windows |-> << >>, activations |-> 0, error |-> NoError]]]

------------------------------------------------------------------------------
(* One chat session: browser/llms/session.py *)

\* LLMSession.__init__: past_questions_answers = list(); no call under way.
NewSession ==
    [past_questions_answers |-> << >>, pc |-> "idle", message |-> "", tries |-> 0,
     last_answer_memory |-> "", last_answer_on_page |-> "",
     returned |-> None, error |-> NoError, calls |-> 0]

\* No tool function has been called.
NoCall == [fn |-> "none"]

------------------------------------------------------------------------------
(* Two workflows constructed in one process *)

Runs == {1, 2}

\* The tool list both are constructed with.
TwinTools == <<"write_code">>

\* Two base workflows constructed for the same task, graphs compiled. The
\* constructor stores the `context` argument itself in AgentState, so the
\* context field is a reference to a list object of the heap: the callers
\* passed two lists, or (sameList) the same list object to both.
TwoWorkflows(sameList) ==
    [heap |-> IF sameList THEN << << >> >> ELSE << << >>, << >> >>,
     run |-> [r \in Runs |->
                LET t == CHOOSE x \in Tasks : TRUE IN
                [state |-> NewAgentState(t, IF sameList THEN 1 ELSE r),
                 pc |-> "plan_action",
                 error |-> NoError,
                 alone |-> NewAgentState(t, << >>),
                 alonePc |-> "plan_action"]]]

\* AgentWorkflow.__init__ (through the subclass constructors)
Init ==
    /\ variant \in Variants
    /\ tools \in (IF variant = "AgentWorkflow" THEN BaseToolLists ELSE {ClassTools(variant)})
    /\ graph = ClassGraph(variant)
    /\ \E t \in Tasks, c \in SeedContexts :
          /\ state = NewAgentState(t, c)
          /\ hist = NewHist(t, c, tools)
    /\ pc = "constructed"
    /\ error = NoError
    /\ fs \in InitialDirs
    /\ builds = 0
    /\ others = [started |-> 0, open |-> {}]
    /\ browser = NewBrowser
    /\ twin = TwoWorkflows(FALSE)
    /\ browsers = TwoBrowsers
    /\ chat = NewSession
    /\ call = NoCall

------------------------------------------------------------------------------
(* The graph that build_compile wires *)

\* The edge out of reflect is conditional: its router evaluate_completion runs
\* when reflect has returned.
\* The graph wired without the two tool nodes.
Edge_skip_tool(node) ==
    CASE node = "START" -> "plan_action"
      [] node = "plan_action" -> "reflect"
      [] node = "execute_tool" -> "process_tool_output"
      [] node = "process_tool_output" -> "reflect"
      [] node = "reflect" -> "evaluate_completion"

Edge_skip_reflect(node) ==
    CASE node = "START" -> "plan_action"
      [] node = "plan_action" -> "execute_tool"
      [] node = "execute_tool" -> "process_tool_output"
      [] node = "process_tool_output" -> "evaluate_completion"
      [] node = "reflect" -> "evaluate_completion"

Edge(node) ==
    CASE node = "START" -> "plan_action"
      [] node = "plan_action" -> "execute_tool"
      [] node = "execute_tool" -> "process_tool_output"
      [] node = "process_tool_output" -> "reflect"
      [] node = "reflect" -> "evaluate_completion"

\* The mapping of the conditional edge; a router that raised has no route.
ConditionalEdge(route) ==
    CASE route = "continue" -> "plan_action"
      [] route = "end" -> "END"
      [] OTHER -> "raised"

\* build_compile called by the owner of the workflow before run().
build_compile ==
    /\ pc = "constructed"
    /\ builds < MaxBuilds
    /\ graph' = Compiled
    /\ builds' = builds + 1
    /\ UNCHANGED <<variant, tools, state, pc, error, fs, others, browser, twin, browsers, chat, call, hist>>

\* run(): `if self.graph is None: self.build_compile()`, then graph.invoke,
\* which enters the graph at START -> plan_action.
run ==
    /\ pc = "constructed"
    /\ IF graph = Unset
       THEN /\ pc' = "raised"
            /\ error' = "AttributeError"
            /\ UNCHANGED <<graph, builds>>
       ELSE /\ graph' = Compiled
            /\ builds' = IF graph = None THEN builds + 1 ELSE builds
            /\ pc' = Edge("START")
            /\ error' = error
    /\ hist' = [hist EXCEPT !.lastStage = "run"]
    /\ UNCHANGED <<variant, tools, state, fs, others, browser, twin, browsers, chat, call>>

------------------------------------------------------------------------------
(* The oracles: what llm.complete, llm.predict_and_call and the judge can answer *)

CompleteOutcomes(texts) ==
    { [kind |-> "text", text |-> t] : t \in texts } \cup { [kind |-> "raises", text |-> None] }

\* predict_and_call either calls one of the offered tools and returns its
\* output, raises ValueError("Expected at least one tool call ..."), or
\* raises another ValueError.
SelectionOutcomes(ts) ==
    { [kind |-> "called", tool |-> ts[i], output |-> o] : i \in 1..Len(ts), o \in Outputs }
    \cup { [kind |-> k, tool |-> None, output |-> << >>] : k \in {"no_tool_call", "other_error"} }

\* The judge's reply text: valid JSON or not, and the value under "completed".
JudgeReplies ==
    { [json |-> TRUE, completed |-> c] :
        c \in {"true", "false", "<json true>", "maybe", "<absent>"} }
    \cup { [json |-> FALSE, completed |-> "<absent>"] }

NoToolCallError == "ValueError: Expected at least one tool call"
OtherValueError == "ValueError: other"

------------------------------------------------------------------------------
(* plan_action *)

\* The planning prompt: role, task, context, previous reflection when there
\* is one, and the tools of the workflow.
PlanPrompt_no_tools(st, ts) ==
    [task |-> st.task, context |-> st.context,
     reflection |-> IF st.reflection \in {None, ""} THEN "" ELSE st.reflection,
     tools |-> << >>]

PlanPrompt(st, ts) ==
    [task |-> st.task, context |-> st.context,
     reflection |-> IF st.reflection \in {None, ""} THEN "" ELSE st.reflection,
     tools |-> ts]

\* plan_action that stores the plan text as the task.
plan_action_body_task(st, answer) ==
    IF answer.kind = "raises"
    THEN [error |-> "PlanningFailure", state |-> st]
    ELSE [error |-> NoError, state |-> [st EXCEPT !.task = answer.text]]

plan_action_body(st, answer) ==
    IF answer.kind = "raises"
    THEN [error |-> "PlanningFailure", state |-> st]
    ELSE [error |-> NoError, state |-> [st EXCEPT !.plan = answer.text]]

plan_action ==
    /\ pc = "plan_action"
    /\ \E answer \in CompleteOutcomes(PlanTexts) :
          LET res == plan_action_body(state, answer) IN
          /\ state' = res.state
          /\ error' = res.error
          /\ pc' = IF res.error = NoError THEN Edge("plan_action") ELSE "raised"
          /\ hist' = [hist EXCEPT !.planAnswer = answer, !.planCallsIter = 1,
                                  !.planTools = PlanPrompt(state, tools).tools,
                                  !.iter = @ + 1, !.stepAtIterStart = state.step,
                                  !.planCalls = @ + 1, !.toolCallsIter = 0,
                                  !.selRequests = << >>, !.selOutcomes = << >>,
                                  !.judgeCallsIter = 0, !.judgeReply = NoReply,
                                  !.judgePrompt = NoReply,
                                  !.lastStage = "plan_action"]
    /\ UNCHANGED <<variant, tools, graph, fs, builds, others, browser, twin, browsers, chat, call>>

------------------------------------------------------------------------------
(* execute_tool *)

ToolPrompt(st) ==
    <<"Task: ", st.task, "Plan: ", st.plan,
      "you MUST call exactly ONE of the available tools now.">>

StrengthenedInstruction ==
    <<"IMPORTANT: You MUST call one of the available tools.">>

RetryNeeded_always(outcome) == TRUE

\* The second request is made only in the handler of a ValueError whose
\* text contains "Expected at least one tool call".
RetryNeeded(outcome) == outcome.kind = "no_tool_call"

RetryPrompt_same(prompt) == prompt

\* prompt = prompt + "\n\nIMPORTANT: You MUST call one of the available tools. ..."
RetryPrompt(prompt) == prompt \o StrengthenedInstruction

\* Every failure of the selection reported as "no selection".
ErrorOf_no_selection(outcome) == NoToolCallError

\* The error execute_tool lets through: the second ValueError, or one that
\* is not "no selection" (`raise`).
ErrorOf(outcome) ==
    IF outcome.kind = "no_tool_call" THEN NoToolCallError ELSE OtherValueError

StepAfterToolCall_twice(step) == step + 2

StepAfterToolCall_unchanged(step) == step

\* state["step"] += 1
StepAfterToolCall(step) == step + 1

\* execute_tool with the step counted before the oracle is asked.
execute_tool_body_step_first(st, ts, first, second) ==
    LET prompt == ToolPrompt(st)
        retried == RetryNeeded(first)
        requests == IF retried
                    THEN << [user_msg |-> prompt, tools |-> ts],
                            [user_msg |-> RetryPrompt(prompt), tools |-> ts] >>
                    ELSE << [user_msg |-> prompt, tools |-> ts] >>
        outcomes == IF retried THEN <<first.kind, second.kind>> ELSE <<first.kind>>
        response == IF retried THEN second ELSE first
        counted == [st EXCEPT !.step = StepAfterToolCall(@)]
    IN  IF response.kind = "called"
        THEN [error |-> NoError,
              requests |-> requests, outcomes |-> outcomes,
              state |-> [k \in DOMAIN st \cup {"tool_call_result"} |->
                           IF k = "tool_call_result"
                           THEN [name |-> response.tool,
                                 type |-> get_tool_type(response.tool),
                                 output |-> response.output]
                           ELSE counted[k]]]
        ELSE [error |-> IF response.kind = "no_tool_call"
                        THEN NoToolCallError ELSE OtherValueError,
              requests |-> requests, outcomes |-> outcomes,
              state |-> counted]

\* first, second: the oracle's answers to the first request and, when one
\* is made, to the second.
execute_tool_body(st, ts, first, second) ==
    LET prompt == ToolPrompt(st)
        retried == RetryNeeded(first)
        requests == IF retried
                    THEN << [user_msg |-> prompt, tools |-> ts],
                            [user_msg |-> RetryPrompt(prompt), tools |-> ts] >>
                    ELSE << [user_msg |-> prompt, tools |-> ts] >>
        outcomes == IF retried THEN <<first.kind, second.kind>> ELSE <<first.kind>>
        response == IF retried THEN second ELSE first
    IN  IF response.kind = "called"
        THEN [error |-> NoError,
              requests |-> requests, outcomes |-> outcomes,
              state |-> [k \in DOMAIN st \cup {"tool_call_result"} |->
                           IF k = "tool_call_result"
                           THEN [name |-> response.tool,
                                 type |-> get_tool_type(response.tool),
                                 output |-> response.output]
                           ELSE IF k = "step" THEN StepAfterToolCall(st.step)
                           ELSE st[k]]]
        ELSE [error |-> ErrorOf(response),
              requests |-> requests, outcomes |-> outcomes,
              state |-> st]

Count(seq, x) == Cardinality({i \in 1..Len(seq) : seq[i] = x})

execute_tool ==
    /\ pc = "execute_tool"
    /\ \E first \in SelectionOutcomes(tools) :
       \E second \in SelectionOutcomes(tools) :
          LET res == execute_tool_body(state, tools, first, second) IN
          /\ state' = res.state
          /\ error' = res.error
          /\ pc' = IF res.error = NoError THEN Edge("execute_tool") ELSE "raised"
          /\ hist' = [hist EXCEPT !.selRequests = res.requests,
                                  !.selOutcomes = res.outcomes,
                                  !.toolCalls = @ + Count(res.outcomes, "called"),
                                  !.toolCallsIter = @ + Count(res.outcomes, "called"),
                                  !.toolNames = IF res.error = NoError
                                                THEN Append(@, res.state.tool_call_result.name)
                                                ELSE @,
                                  !.lastStage = "execute_tool"]
    /\ UNCHANGED <<variant, tools, graph, fs, builds, others, browser, twin, browsers, chat, call>>

------------------------------------------------------------------------------
(* process_tool_output *)

\* tempfile.NamedTemporaryFile(delete=False, ...) creates the file under the
\* first candidate name that no file has yet (O_EXCL); none left: FileExistsError.
FreshIndexes(files) == { i \in 1..NumTmpNames : TmpName(i) \notin DOMAIN files }

NamedTemporaryFile_fixed(files) == TmpName(1)

NamedTemporaryFile(files) ==
    TmpName(CHOOSE i \in FreshIndexes(files) : \A j \in FreshIndexes(files) : i <= j)

\* fp.write(output); fp.close()
WriteFile(files, name, text) ==
    [n \in DOMAIN files \cup {name} |-> IF n = name THEN text ELSE files[n]]

\* f"Output of {name} tool is stored in {link}."
BasePointer(name, link) ==
    <<"Output of ", name, " tool is stored in ">> \o link \o <<".">>

AppendMessage_replace(st, m) == [st EXCEPT !.context = <<m>>]

\* state["context"].append(Message(...))
AppendMessage(st, m) == [st EXCEPT !.context = Append(@, m)]

\* process_tool_output that keeps the output as the content of a FILE result.
base_process_tool_output_inline(st, files) ==
    LET r == st.tool_call_result IN
    IF r.type = FILE_TOOL_OUTPUT
    THEN IF FreshIndexes(files) = {}
         THEN [error |-> "FileExistsError", state |-> st, fs |-> files]
         ELSE LET link == NamedTemporaryFile(files) IN
              [error |-> NoError,
               state |-> AppendMessage(st, Message(r.name, link, r.output)),
               fs |-> WriteFile(files, link, r.output)]
    ELSE [error |-> NoError,
          state |-> AppendMessage(st, Message(r.name, << >>, r.output)),
          fs |-> files]

\* AgentWorkflow.process_tool_output
base_process_tool_output(st, files) ==
    LET r == st.tool_call_result IN
    IF r.type = FILE_TOOL_OUTPUT
    THEN IF FreshIndexes(files) = {}
         THEN [error |-> "FileExistsError", state |-> st, fs |-> files]
         ELSE LET link == NamedTemporaryFile(files) IN
              [error |-> NoError,
               state |-> AppendMessage(st, Message(r.name, link, BasePointer(r.name, link))),
               fs |-> WriteFile(files, link, r.output)]
    ELSE [error |-> NoError,
          state |-> AppendMessage(st, Message(r.name, << >>, r.output)),
          fs |-> files]

CoderPointer(name, task, link) ==
    <<"Output of ", name, " for an intermediary task (task: ", task, ") is stored in ">>
    \o link \o <<".", "EXECUTE THIS FILE IN THE NEXT STEP TO GET THE RESULT.">>

CoderExecuted(task, content) ==
    <<"Executed code for task: ", task, ".\nOUTPUT:">> \o content

\* CodeWriterExecutorWorkflow.process_tool_output reads state["last_output"].
coder_process_tool_output(st, files) ==
    IF "last_output" \notin DOMAIN st
    THEN [error |-> "KeyError: 'last_output'", state |-> st, fs |-> files]
    ELSE
    LET r == st.last_output
        wrap(content) == IF r.name = "execute_code" THEN CoderExecuted(st.task, content)
                         ELSE content
    IN
    IF r.type = FILE_TOOL_OUTPUT
    THEN IF FreshIndexes(files) = {}
         THEN [error |-> "FileExistsError", state |-> st, fs |-> files]
         ELSE LET link == NamedTemporaryFile(files) IN
              [error |-> NoError,
               state |-> AppendMessage(st,
                            Message(r.name, link, wrap(CoderPointer(r.name, st.task, link)))),
               fs |-> WriteFile(files, link, r.output)]
    ELSE [error |-> NoError,
          state |-> AppendMessage(st, Message(r.name, r.output, wrap(r.output))),
          fs |-> files]

WebPointer(task, link) ==
    <<"Web search SUCCESSFUL for task: ", task, ". ", "The downloaded info is stored in ">>
    \o link \o <<". ", "PROCEED TO UNSTRUCTURED TEXT PROCESSING!">>

\* DeepWebSearchWorkflow.process_tool_output reads state["last_output"].
web_process_tool_output(st, files) ==
    IF "last_output" \notin DOMAIN st
    THEN [error |-> "KeyError: 'last_output'", state |-> st, fs |-> files]
    ELSE
    LET r == st.last_output IN
    IF r.type = FILE_TOOL_OUTPUT
    THEN IF FreshIndexes(files) = {}
         THEN [error |-> "FileExistsError", state |-> st, fs |-> files]
         ELSE LET link == NamedTemporaryFile(files) IN
              [error |-> NoError,
               state |-> AppendMessage(st, Message(r.name, link, WebPointer(st.task, link))),
               fs |-> WriteFile(files, link, r.output)]
    ELSE [error |-> NoError,
          state |-> AppendMessage(st, Message(r.name, << >>, r.output)),
          fs |-> files]

\* Method resolution: the subclass override, or the inherited base method.
process_tool_output_of(v, st, files) ==
    CASE v = "CodeWriterExecutorWorkflow" -> coder_process_tool_output(st, files)
      [] v = "DeepWebSearchWorkflow" -> web_process_tool_output(st, files)
      [] OTHER -> base_process_tool_output(st, files)

\* The reference process_tool_output returned for a file it wrote: the link
\* of the Message it appended, if it has one.
WrittenRef(before, after) ==
    IF /\ Len(after.context) > Len(before.context)
       /\ after.context[Len(after.context)].link # << >>
    THEN << after.context[Len(after.context)].link >>
    ELSE << >>

process_tool_output ==
    /\ pc = "process_tool_output"
    /\ LET res == process_tool_output_of(variant, state, fs) IN
          /\ state' = res.state
          /\ fs' = res.fs
          /\ error' = res.error
          /\ pc' = IF res.error = NoError THEN Edge("process_tool_output") ELSE "raised"
          /\ hist' = [hist EXCEPT !.refs = @ \o WrittenRef(state, res.state),
                                  !.lastStage = "process_tool_output"]
    /\ UNCHANGED <<variant, tools, graph, builds, others, browser, twin, browsers, chat, call>>

\* A concurrent run reaches the FILE branch of process_tool_output while this
\* run is at process_tool_output: it creates its temporary file (empty) ...
\* (A file created at another moment is in the directory when this run next
\* writes, exactly like one created just before that write.)
other_create ==
    /\ pc = "process_tool_output"
    /\ hist.iter <= MaxRaceIter
    /\ others.started < MaxOtherWrites
    /\ FreshIndexes(fs) # {}
    /\ LET link == NamedTemporaryFile(fs) IN
          /\ fs' = WriteFile(fs, link, << >>)
          /\ others' = [started |-> others.started + 1, open |-> others.open \cup {link}]
          /\ hist' = [hist EXCEPT !.refs = Append(@, link)]
    /\ UNCHANGED <<variant, tools, graph, state, pc, error, builds, browser, twin, browsers, chat, call>>

\* ... and writes its output into it and closes it, before or after the
\* write of this run. (This run never reads the file of another run, so a
\* later moment of the write makes no difference to it.)
other_write ==
    /\ pc \in {"process_tool_output", "reflect"}
    /\ \E link \in others.open :
          /\ fs' = WriteFile(fs, link, <<"output of another run">>)
          /\ others' = [others EXCEPT !.open = @ \ {link}]
    /\ UNCHANGED <<variant, tools, graph, state, pc, error, builds, browser, twin, browsers, chat, call, hist>>

------------------------------------------------------------------------------
(* reflect *)

\* reflect that also clears the plan.
reflect_body_clears_plan(st, answer) ==
    IF answer.kind = "raises"
    THEN [error |-> "ReflectionFailure", state |-> st]
    ELSE [error |-> NoError, state |-> [st EXCEPT !.reflection = answer.text, !.plan = None]]

reflect_body_appending(st, answer) ==
    IF answer.kind = "raises"
    THEN [error |-> "ReflectionFailure", state |-> st]
    ELSE [error |-> NoError,
          state |-> [st EXCEPT !.reflection = answer.text,
                               !.context = Append(@, Message("reflect", << >>, <<answer.text>>))]]

reflect_body(st, answer) ==
    IF answer.kind = "raises"
    THEN [error |-> "ReflectionFailure", state |-> st]
    ELSE [error |-> NoError, state |-> [st EXCEPT !.reflection = answer.text]]

reflect ==
    /\ pc = "reflect"
    /\ \E answer \in CompleteOutcomes(ReflectionTexts) :
          LET res == reflect_body(state, answer) IN
          /\ state' = res.state
          /\ error' = res.error
          /\ pc' = IF res.error = NoError THEN Edge("reflect") ELSE "raised"
    /\ hist' = [hist EXCEPT !.lastStage = "reflect"]
    /\ UNCHANGED <<variant, tools, graph, fs, builds, others, browser, twin, browsers, chat, call>>

------------------------------------------------------------------------------
(* evaluate_completion *)

\* construct_task_completion: json.loads, then
\* completed = data.get("completed") in ["True", "true", "yes", "1"]
construct_task_completion(reply) ==
    IF ~reply.json
    THEN [error |-> "JSONDecodeError", completed |-> FALSE]
    ELSE [error |-> NoError, completed |-> reply.completed \in {"True", "true", "yes", "1"}]

\* The cap compared one step late.
base_route_late(completed, step) ==
    IF completed THEN "end"
    ELSE IF step > MAX_STEPS THEN "end"
    ELSE "continue"

base_route_cap_only(completed, step) ==
    IF step >= MAX_STEPS THEN "end" ELSE "continue"

\* The two stopping conditions of AgentWorkflow.evaluate_completion
\* (MAX_STEPS is the one of workflow_base, the module that defines the method).
base_route(completed, step) ==
    IF completed THEN "end"
    ELSE IF step >= MAX_STEPS THEN "end"
    ELSE "continue"

\* repr of one Message, and str() of the context list: one repr per entry,
\* in the order of the list.
repr_message(m) ==
    <<"Message(provided_by=", m.provided_by, ", link=">> \o m.link
        \o <<", content=">> \o m.content \o <<", metadata={})">>

str_context(context) == [i \in 1..Len(context) |-> repr_message(context[i])]

JudgeResources_without_last(st) ==
    str_context(SubSeq(st.context, 1, Len(st.context) - 1))

\* The second argument of construct_task_completion: str(state["context"]).
JudgeResources(st) == str_context(st.context)

\* The prompt construct_task_completion sends to the judge: the RESOURCES and
\* TASK sections around fixed instructions.
JudgePrompt(task, context) == [resources |-> context, task |-> task]

base_evaluate_completion_answers(st, reply) ==
    LET decision == construct_task_completion(reply)
        prompt == JudgePrompt(st.task, JudgeResources(st)) IN
    IF decision.error # NoError
    THEN [error |-> decision.error, route |-> "raised", consulted |-> TRUE,
          completed |-> FALSE, prompt |-> prompt]
    ELSE [error |-> NoError,
          route |-> IF st.answers # None THEN "end"
                    ELSE base_route(decision.completed, st.step),
          consulted |-> TRUE, completed |-> decision.completed, prompt |-> prompt]

base_evaluate_completion(st, reply) ==
    LET decision == construct_task_completion(reply)
        prompt == JudgePrompt(st.task, JudgeResources(st)) IN
    IF decision.error # NoError
    THEN [error |-> decision.error, route |-> "raised", consulted |-> TRUE,
          completed |-> FALSE, prompt |-> prompt]
    ELSE [error |-> NoError, route |-> base_route(decision.completed, st.step),
          consulted |-> TRUE, completed |-> decision.completed, prompt |-> prompt]

\* DeepWebSearchWorkflow.evaluate_completion: os.path.exists(context[-1].link)
web_evaluate_completion(st, files) ==
    IF st.context = << >>
    THEN [error |-> "IndexError", route |-> "raised", consulted |-> FALSE,
          completed |-> FALSE, prompt |-> NoReply]
    ELSE [error |-> NoError,
          route |-> IF st.context[Len(st.context)].link \in DOMAIN files THEN "end"
                    ELSE IF st.step >= MAX_STEPS_web_search THEN "end"
                    ELSE "continue",
          consulted |-> FALSE, completed |-> FALSE, prompt |-> NoReply]

evaluate_completion_of(v, st, files, reply) ==
    IF v = "DeepWebSearchWorkflow"
    THEN web_evaluate_completion(st, files)
    ELSE base_evaluate_completion(st, reply)

\* The conditional edge after reflect: "continue" -> plan_action, "end" -> END.
evaluate_completion ==
    /\ pc = "evaluate_completion"
    /\ \E reply \in JudgeReplies :
          LET res == evaluate_completion_of(variant, state, fs, reply) IN
          /\ error' = res.error
          /\ pc' = ConditionalEdge(res.route)
          /\ hist' = [hist EXCEPT
                        !.judgeCalls = IF res.consulted THEN @ + 1 ELSE @,
                        !.judgeCallsIter = IF res.consulted THEN @ + 1 ELSE @,
                        !.judgeReply = IF res.consulted THEN reply ELSE @,
                        !.judgePrompt = IF res.consulted THEN res.prompt ELSE @,
                        !.decisions = IF res.consulted /\ res.error = NoError
                                      THEN Append(@, res.completed) ELSE @,
                        !.itersCompleted = IF res.error = NoError THEN @ + 1 ELSE @,
                        !.lastStage = "evaluate_completion"]
    /\ UNCHANGED <<variant, tools, graph, state, fs, builds, others, browser, twin, browsers, chat, call>>

Next ==
    \/ build_compile
    \/ run
    \/ plan_action
    \/ execute_tool
    \/ process_tool_output
    \/ reflect
    \/ evaluate_completion

Spec == Init /\ [][Next]_vars

\* Every external call returns or raises, and graph.invoke then runs the
\* next node: a step that can be taken is taken.
SpecLive == Init /\ [][Next]_vars /\ WF_vars(Next)

\* The run together with the FILE writes of concurrent runs.
NextConcurrent ==
    \/ run
    \/ plan_action
    \/ execute_tool
    \/ process_tool_output
    \/ reflect
    \/ evaluate_completion
    \/ other_create
    \/ other_write

\* Only the base class writes FILE outputs (the subclasses' process_tool_output
\* raises before it writes): a base workflow constructed without resources,
\* whose owner has called build_compile().
InitConcurrent ==
    /\ variant = "AgentWorkflow"
    /\ tools \in BaseToolLists
    /\ graph = Compiled
    /\ builds = 1
    /\ \E t \in Tasks :
          /\ state = NewAgentState(t, << >>)
          /\ hist = NewHist(t, << >>, tools)
    /\ pc = "constructed"
    /\ error = NoError
    /\ fs \in InitialDirs
    /\ others = [started |-> 0, open |-> {}]
    /\ browser = NewBrowser
    /\ twin = TwoWorkflows(FALSE)
    /\ browsers = TwoBrowsers
    /\ chat = NewSession
    /\ call = NoCall

SpecConcurrent == InitConcurrent /\ [][NextConcurrent]_vars


------------------------------------------------------------------------------
(* Tab activation on the shared browser:                                   *)
(* LLMSession._activate_chat_session and BraveBrowser._raw_search.         *)
(* Each driver call and each access to opened_tabs is one step of the      *)
(* session that makes it; the browser has no lock.                         *)

workflowVars == <<variant, tools, graph, state, pc, error, fs, builds, others, twin, browsers, chat, call, hist>>

IsBrave(s) == Collaborator(s) = "BraveBrowser"

\* The step of session s that takes it from position `from` to `to` and
\* changes the browser's fields to those of b.
SessionStep(s, from, to, b) ==
    /\ browser.sess[s].pc = from
    /\ browser' = [b EXCEPT !.sess[s].pc = to]
    /\ UNCHANGED workflowVars

\* `if tab_id not in self.browser.opened_tabs.keys()`
check_tab(s) ==
    /\ browser.sess[s].activations < MaxActivations
    /\ SessionStep(s, "idle",
                   IF TabId(s) \notin DOMAIN browser.opened_tabs
                   THEN "new_window" ELSE "switch_existing",
                   browser)

\* driver.switch_to.new_window('tab'): a new window, which gets the focus.
new_window(s) ==
    /\ browser.sess[s].pc = "new_window"
    /\ LET h == Len(browser.window_handles) + 1 IN
       SessionStep(s, "new_window", "get",
                   [browser EXCEPT !.window_handles = Append(@, h),
                                   !.pages = Append(@, "about:blank"),
                                   !.current = h,
                                   !.sess[s].tabs = Append(@, h)])

\* driver.get(url) loads the url in the window that has the focus.
get(s) ==
    /\ browser.sess[s].pc \in {"get", "get_existing"}
    /\ SessionStep(s, browser.sess[s].pc,
                   IF browser.sess[s].pc = "get" THEN "window_handles" ELSE "page_source",
                   [browser EXCEPT !.pages[browser.current] = Url(s)])

\* windows = driver.window_handles
window_handles(s) ==
    /\ browser.sess[s].pc = "window_handles"
    /\ SessionStep(s, "window_handles", "record",
                [browser EXCEPT !.sess[s].windows = browser.window_handles])

\* A registry that keeps only the tab recorded last.
record_only_this(ot, tab, windows) ==
    [t \in {tab} |-> windows[Len(windows)]]

record_last_window(ot, tab, windows) ==
    [t \in DOMAIN ot \cup {tab} |-> IF t = tab THEN windows[Len(windows)] ELSE ot[t]]

\* opened_tabs[tab_id] = windows[-1]
record_tab(s) ==
    /\ browser.sess[s].pc = "record"
    /\ SessionStep(s, "record", "switch_new",
                [browser EXCEPT !.opened_tabs =
                    record_last_window(@, TabId(s), browser.sess[s].windows)])

\* driver.switch_to.window(opened_tabs[tab_id]): in the branch that opened the
\* tab (LLMSession then falls through to the switch after the if), and in
\* the other branch (BraveBrowser then loads the search url).
switch_to_window(s) ==
    /\ browser.sess[s].pc \in {"switch_new", "switch_existing"}
    /\ SessionStep(s, browser.sess[s].pc,
                   CASE browser.sess[s].pc = "switch_new" /\ ~IsBrave(s) -> "switch_existing"
                     [] browser.sess[s].pc = "switch_new" /\ IsBrave(s) -> "page_source"
                     [] browser.sess[s].pc = "switch_existing" /\ IsBrave(s) -> "get_existing"
                     [] OTHER -> "page_source",
                   [browser EXCEPT !.current = browser.opened_tabs[TabId(s)]])

\* driver.page_source (returned by _raw_search, inspected by
\* _validate_start_page_loaded): the activation is over.
page_source(s) ==
    /\ browser.sess[s].pc = "page_source"
    /\ SessionStep(s, "page_source", "idle",
                [browser EXCEPT !.sess[s].activations = @ + 1,
                                !.sess[s].windows = << >>])

NextBrowser ==
    \E s \in Sessions :
        \/ check_tab(s)
        \/ new_window(s)
        \/ get(s)
        \/ window_handles(s)
        \/ record_tab(s)
        \/ switch_to_window(s)
        \/ page_source(s)

\* The browser package is imported by a process that has one workflow.
InitBrowser ==
    /\ Init
    /\ variant = "AgentWorkflow"
    /\ state.context = << >>
    /\ fs = << >>

SpecBrowser == InitBrowser /\ [][NextBrowser]_vars

\* The calls made one after the other: an activation starts when no other
\* is under way.
NoActivationUnderWay == \A s \in Sessions : browser.sess[s].pc = "idle"

\* A caller invokes send_message or search on session s.
start_activation(s) ==
    /\ NoActivationUnderWay
    /\ check_tab(s)

NextBrowserSeq ==
    \E s \in Sessions :
        \/ start_activation(s)
        \/ new_window(s)
        \/ get(s)
        \/ window_handles(s)
        \/ record_tab(s)
        \/ switch_to_window(s)
        \/ page_source(s)

SpecBrowserSeq == InitBrowser /\ [][NextBrowserSeq]_vars

------------------------------------------------------------------------------
(* Two runs in one process, their nodes interleaved.  Each node is the     *)
(* method of the single run above, applied to the run's AgentState with    *)
(* its context list read from, and written back to, the heap.  `alone` is  *)
(* the state the same answers give the run when nothing else runs.         *)

singleVars == <<variant, tools, graph, state, pc, error, fs, builds, others, browser, browsers, chat, call, hist>>

\* The AgentState of a run with its context list looked up.
Deref(st, heap) == [st EXCEPT !.context = heap[st.context]]

AfterNode(stage, res) == IF res.error = NoError THEN Edge(stage) ELSE "raised"

\* Run r has executed a node: res is the node's result on the run's state,
\* resAlone its result on the state of the run alone.
TwinStep(r, res, nxt, resAlone, nxtAlone) ==
    LET me == twin.run[r]
        id == me.state.context
        atSamePoint == me.alonePc = me.pc
    IN  /\ twin' = [heap |-> [twin.heap EXCEPT ![id] = res.state.context],
                    run |-> [twin.run EXCEPT ![r] =
                               [state |-> [res.state EXCEPT !.context = id],
                                pc |-> nxt,
                                error |-> res.error,
                                alone |-> IF atSamePoint THEN resAlone.state ELSE me.alone,
                                alonePc |-> IF atSamePoint THEN nxtAlone ELSE me.alonePc]]]
        /\ UNCHANGED singleVars

plan_action_of(r) ==
    /\ twin.run[r].pc = "plan_action"
    /\ \E answer \in CompleteOutcomes(PlanTexts) :
          LET res == plan_action_body(Deref(twin.run[r].state, twin.heap), answer)
              resAlone == plan_action_body(twin.run[r].alone, answer)
          IN  TwinStep(r, res, AfterNode("plan_action", res),
                       resAlone, AfterNode("plan_action", resAlone))

\* The tool returns the same output whenever it is called.
TwinSelectionOutcomes ==
    { o \in SelectionOutcomes(TwinTools) : o.kind = "called" => o.output = <<"out1">> }

execute_tool_of(r) ==
    /\ twin.run[r].pc = "execute_tool"
    /\ \E first \in TwinSelectionOutcomes, second \in TwinSelectionOutcomes :
          LET res == execute_tool_body(Deref(twin.run[r].state, twin.heap),
                                       TwinTools, first, second)
              resAlone == execute_tool_body(twin.run[r].alone, TwinTools, first, second)
          IN  TwinStep(r, res, AfterNode("execute_tool", res),
                       resAlone, AfterNode("execute_tool", resAlone))

process_tool_output_of_run(r) ==
    /\ twin.run[r].pc = "process_tool_output"
    /\ LET res == base_process_tool_output(Deref(twin.run[r].state, twin.heap), fs)
           resAlone == IF "tool_call_result" \in DOMAIN twin.run[r].alone
                       THEN base_process_tool_output(twin.run[r].alone, fs)
                       ELSE [error |-> NoError, state |-> twin.run[r].alone]
       IN  TwinStep(r, res, AfterNode("process_tool_output", res),
                    resAlone, AfterNode("process_tool_output", resAlone))

reflect_of(r) ==
    /\ twin.run[r].pc = "reflect"
    /\ \E answer \in CompleteOutcomes(ReflectionTexts) :
          LET res == reflect_body(Deref(twin.run[r].state, twin.heap), answer)
              resAlone == reflect_body(twin.run[r].alone, answer)
          IN  TwinStep(r, res, AfterNode("reflect", res),
                       resAlone, AfterNode("reflect", resAlone))

evaluate_completion_of_run(r) ==
    /\ twin.run[r].pc = "evaluate_completion"
    /\ \E reply \in JudgeReplies :
          LET st == Deref(twin.run[r].state, twin.heap)
              res == base_evaluate_completion(st, reply)
              resAlone == base_evaluate_completion(twin.run[r].alone, reply)
          IN  TwinStep(r, [error |-> res.error, state |-> st],
                       ConditionalEdge(res.route),
                       [error |-> resAlone.error, state |-> twin.run[r].alone],
                       ConditionalEdge(resAlone.route))

NextTwoRuns ==
    \E r \in Runs :
        \/ plan_action_of(r)
        \/ execute_tool_of(r)
        \/ process_tool_output_of_run(r)
        \/ reflect_of(r)
        \/ evaluate_completion_of_run(r)

InitTwoRuns ==
    /\ variant = "AgentWorkflow"
    /\ tools = TwinTools
    /\ graph = Compiled
    /\ builds = 1
    /\ \E t \in Tasks :
          /\ state = NewAgentState(t, << >>)
          /\ hist = NewHist(t, << >>, tools)
    /\ pc = "constructed"
    /\ error = NoError
    /\ fs = << >>
    /\ others = [started |-> 0, open |-> {}]
    /\ browser = NewBrowser
    /\ twin \in { TwoWorkflows(sameList) : sameList \in BOOLEAN }
    /\ browsers = TwoBrowsers
    /\ chat = NewSession
    /\ call = NoCall

SpecTwoRuns == InitTwoRuns /\ [][NextTwoRuns]_vars

------------------------------------------------------------------------------
(* LLMSession._activate_chat_session of the ChatGPT session attached to     *)
(* ChromeBrowser instance i, when there are two instances                   *)

otherVars == <<variant, tools, graph, state, pc, error, fs, builds, others, browser, twin, chat, call, hist>>

\* Both sessions are ChatGPT(browser_i, session_id="closed_ai").
SharedTabId == TabId("closed_ai")

InstanceStep(i, to, b) ==
    /\ browsers' = [b EXCEPT !.sess[i].pc = to]
    /\ UNCHANGED otherVars

\* `if tab_id not in self.browser.opened_tabs.keys()`
check_tab_on(i) ==
    /\ browsers.sess[i].pc = "idle"
    /\ browsers.sess[i].activations < MaxActivations
    /\ browsers.sess[i].error = NoError
    /\ InstanceStep(i, IF SharedTabId \notin DOMAIN browsers.opened_tabs
                       THEN "new_window" ELSE "switch_existing", browsers)

\* self.browser.driver.switch_to.new_window('tab')
new_window_on(i) ==
    /\ browsers.sess[i].pc = "new_window"
    /\ LET h == Handle(i, Len(browsers.driver[i].window_handles) + 1) IN
       InstanceStep(i, "get",
                    [browsers EXCEPT !.driver[i].window_handles = Append(@, h),
                                     !.driver[i].current = h])

\* self.browser.driver.get(self.llm_chat_url)
get_on(i) ==
    /\ browsers.sess[i].pc = "get"
    /\ InstanceStep(i, "window_handles", browsers)

\* windows = self.browser.driver.window_handles
window_handles_on(i) ==
    /\ browsers.sess[i].pc = "window_handles"
    /\ InstanceStep(i, "record",
                    [browsers EXCEPT !.sess[i].windows = browsers.driver[i].window_handles])

\* self.browser.opened_tabs[tab_id] = windows[-1]
record_tab_on(i) ==
    /\ browsers.sess[i].pc = "record"
    /\ InstanceStep(i, "switch_new",
                    [browsers EXCEPT !.opened_tabs =
                        record_last_window(@, SharedTabId, browsers.sess[i].windows)])

\* self.browser.driver.switch_to.window(self.browser.opened_tabs[tab_id]):
\* the driver raises NoSuchWindowException for a handle it does not have.
switch_to_window_on(i) ==
    /\ browsers.sess[i].pc \in {"switch_new", "switch_existing"}
    /\ LET h == browsers.opened_tabs[SharedTabId] IN
       IF \E n \in 1..Len(browsers.driver[i].window_handles) :
             browsers.driver[i].window_handles[n] = h
       THEN InstanceStep(i, IF browsers.sess[i].pc = "switch_new"
                            THEN "switch_existing" ELSE "page_source",
                         [browsers EXCEPT !.driver[i].current = h])
       ELSE InstanceStep(i, "idle",
                         [browsers EXCEPT !.sess[i].error = "NoSuchWindowException",
                                          !.sess[i].windows = << >>])

\* _validate_start_page_loaded(): the activation is over.
page_source_on(i) ==
    /\ browsers.sess[i].pc = "page_source"
    /\ InstanceStep(i, "idle",
                    [browsers EXCEPT !.sess[i].activations = @ + 1,
                                     !.sess[i].windows = << >>])

NextTwoBrowsers ==
    \E i \in Instances :
        \/ check_tab_on(i)
        \/ new_window_on(i)
        \/ get_on(i)
        \/ window_handles_on(i)
        \/ record_tab_on(i)
        \/ switch_to_window_on(i)
        \/ page_source_on(i)

SpecTwoBrowsers == InitBrowser /\ [][NextTwoBrowsers]_vars

------------------------------------------------------------------------------
(* LLMSession.send_message (ChatGPT and DeepSeek share this path) *)

noChatVars == <<variant, tools, graph, state, pc, error, fs, builds, others, browser, twin, browsers, call, hist>>

Messages == {"q1", "q2"}

\* What _retrieve_last_answer can return: the text of the last answer on
\* the page, "" when it has none.
PageAnswers == {"", "a1", "a2"}

\* self.past_questions_answers[-1]["answer"] if self.past_questions_answers else ""
LastRecordedAnswer(past) == IF past = << >> THEN "" ELSE past[Len(past)].answer

\* A validation that only rejects the empty answer.
validate_message_sent_nonempty(memory, on_page) ==
    IF on_page = ""
    THEN [error |-> "MessageNotSentError", answer |-> None]
    ELSE [error |-> NoError, answer |-> on_page]

\* The test of _validate_message_sent after its loop.
validate_message_sent(memory, on_page) ==
    IF memory = on_page \/ on_page = ""
    THEN [error |-> "MessageNotSentError", answer |-> None]
    ELSE [error |-> NoError, answer |-> on_page]

ChatStep(c) ==
    /\ chat' = c
    /\ UNCHANGED noChatVars

\* The call ends with an exception.
Raised(e) == [chat EXCEPT !.pc = "idle", !.error = e, !.returned = None, !.tries = 0]

\* send_message(message) is called.
send_message ==
    /\ chat.pc = "idle"
    /\ chat.calls < MaxCalls
    /\ \E m \in Messages :
          ChatStep([chat EXCEPT !.pc = "activate", !.message = m, !.calls = @ + 1,
                                !.error = NoError, !.returned = None, !.tries = 0])

\* _activate_chat_session(): returns, or the start page did not load.
activate_chat_session ==
    /\ chat.pc = "activate"
    /\ \E ok \in BOOLEAN :
          ChatStep(IF ok THEN [chat EXCEPT !.pc = "type"] ELSE Raised("BrowserTimeOutError"))

\* _send_message up to Keys.ENTER: the input is found and filled, or
\* waiter.until raises TimeoutException.
type_message ==
    /\ chat.pc = "type"
    /\ \E ok \in BOOLEAN :
          ChatStep(IF ok THEN [chat EXCEPT !.pc = "retrieve"] ELSE Raised("TimeoutException"))

\* One pass of the loop of _validate_message_sent (n_tries = 2): read the
\* last recorded answer and the last answer on the page; waiter.until
\* raises TimeoutException when the page has no answer element.
retrieve_last_answer ==
    /\ chat.pc = "retrieve"
    /\ \/ \E a \in PageAnswers :
             ChatStep([chat EXCEPT !.last_answer_memory =
                                       LastRecordedAnswer(chat.past_questions_answers),
                                   !.last_answer_on_page = a,
                                   !.tries = @ + 1,
                                   !.pc = IF chat.tries + 1 = 2 THEN "validate" ELSE "retrieve"])
       \/ ChatStep(Raised("TimeoutException"))

\* The test after the loop; then _send_message appends the record and
\* returns the answer.
validate_and_record ==
    /\ chat.pc = "validate"
    /\ LET res == validate_message_sent(chat.last_answer_memory, chat.last_answer_on_page) IN
       ChatStep(IF res.error # NoError
                THEN Raised(res.error)
                ELSE [chat EXCEPT !.past_questions_answers =
                                      Append(@, [message |-> chat.message, answer |-> res.answer]),
                                  !.returned = res.answer,
                                  !.tries = 0,
                                  !.pc = "idle"])

NextChat ==
    \/ send_message
    \/ activate_chat_session
    \/ type_message
    \/ retrieve_last_answer
    \/ validate_and_record

SpecChat == InitBrowser /\ [][NextChat]_vars

------------------------------------------------------------------------------
(* Tool functions called on their own *)

noCallVars == <<variant, tools, graph, state, pc, error, fs, builds, others, browser, twin, browsers, chat, hist>>

\* A process in which the function is called with one of the arguments of
\* calls; the workflow, the browser and the chat session are not used.
InitCall(calls) ==
    /\ variant = "AgentWorkflow"
    /\ tools = TwinTools
    /\ graph = Unset
    /\ builds = 0
    /\ \E t \in Tasks :
          /\ state = NewAgentState(t, << >>)
          /\ hist = NewHist(t, << >>, tools)
    /\ pc = "constructed"
    /\ error = NoError
    /\ fs = << >>
    /\ others = [started |-> 0, open |-> {}]
    /\ browser = NewBrowser
    /\ twin = TwoWorkflows(FALSE)
    /\ browsers = TwoBrowsers
    /\ chat = NewSession
    /\ call \in calls

CallStep(c) ==
    /\ call' = c
    /\ UNCHANGED noCallVars

------------------------------------------------------------------------------
(* run_code: tools/code.py *)

\* The pieces a text is made of: the opening fence, the closing fence,
\* some lines of code (any code), and a NUL character.
\* (a fence is three backticks, written <fence> here)
OpenFence == "<fence>python\n"
CloseFence == "<fence>"
NUL == "<NUL>"
SomeCode == "<code>"
TextPieces == {OpenFence, CloseFence, SomeCode, NUL}

Texts == UNION { [1..n -> TextPieces] : n \in 0..MaxTextLen }

\* A fence occurs at the start of this piece (the opening fence starts with one).
StartsWithFence(piece) == piece \in {CloseFence, OpenFence}

\* re.search(r"<fence>python\n(.*?)<fence>", text, re.DOTALL): the leftmost
\* opening fence that has a fence after it, and the shortest text between.
re_search(text) ==
    LET opens == { i \in 1..Len(text) :
                     /\ text[i] = OpenFence
                     /\ \E j \in (i+1)..Len(text) : StartsWithFence(text[j]) }
    IN  IF opens = {}
        THEN [found |-> FALSE, group1 |-> << >>]
        ELSE LET i == CHOOSE x \in opens : \A y \in opens : x <= y
                 closes == { j \in (i+1)..Len(text) : StartsWithFence(text[j]) }
                 j == CHOOSE x \in closes : \A y \in closes : x <= y
             IN  [found |-> TRUE, group1 |-> SubSeq(text, i + 1, j - 1)]

NoCodeBlockMessage == <<"--- No python code block found, try to rerunning the step ---">>
NoOutputMessage == <<"--- No output produced ---">>

\* What the child wrote to a stream: nothing, text, or bytes that are not
\* text in the parent's encoding.
Undecodable == "<undecodable bytes>"
Streams == {"", "text", Undecodable}
ChildOutcomes == [returncode : {0, 1}, stdout : Streams, stderr : Streams]

\* What `python -c code` can do: nothing for the empty program, anything
\* for a program with code in it.
OutcomesOf(code) ==
    IF code = << >>
    THEN { [returncode |-> 0, stdout |-> "", stderr |-> ""] }
    ELSE ChildOutcomes

\* The string run_code builds from the decoded streams.
output_string(process) ==
    LET out == IF process.stdout # ""
               THEN <<"--- STDOUT ---\n", process.stdout, "\n">> ELSE << >>
        err == IF process.stderr # ""
               THEN <<"--- STDERR ---\n", process.stderr, "\n">> ELSE << >>
    IN  IF out \o err = << >> THEN NoOutputMessage ELSE out \o err

NewRunCode(text) ==
    [fn |-> "run_code", text_with_code |-> text, pc |-> "re_search",
     extracted_code |-> << >>, started |-> FALSE, result |-> None, error |-> NoError]

\* code_match = re.search(...); if not code_match: return the message
search_code_block ==
    /\ call.fn = "run_code"
    /\ call.pc = "re_search"
    /\ LET m == re_search(call.text_with_code) IN
       CallStep(IF m.found
                THEN [call EXCEPT !.pc = "subprocess_run", !.extracted_code = m.group1]
                ELSE [call EXCEPT !.pc = "returned", !.result = NoCodeBlockMessage])

\* subprocess.run([sys.executable, "-c", extracted_code], capture_output=True,
\* text=True, check=False): an argument with a NUL character is rejected
\* with ValueError before a child is started; the child's streams are
\* decoded as text, which raises UnicodeDecodeError for bytes that are not;
\* then the output string is built and returned.
subprocess_run ==
    /\ call.fn = "run_code"
    /\ call.pc = "subprocess_run"
    /\ IF \E i \in 1..Len(call.extracted_code) : call.extracted_code[i] = NUL
       THEN CallStep([call EXCEPT !.pc = "raised",
                                  !.error = "ValueError: embedded null byte"])
       ELSE \E process \in OutcomesOf(call.extracted_code) :
               CallStep(IF Undecodable \in {process.stdout, process.stderr}
                        THEN [call EXCEPT !.pc = "raised", !.started = TRUE,
                                          !.error = "UnicodeDecodeError"]
                        ELSE [call EXCEPT !.pc = "returned", !.started = TRUE,
                                          !.result = output_string(process)])

NextRunCode ==
    \/ search_code_block
    \/ subprocess_run

InitRunCode == InitCall({ NewRunCode(t) : t \in Texts })

SpecRunCode == InitRunCode /\ [][NextRunCode]_vars

------------------------------------------------------------------------------
(* _drop_non_unique_link: tools/web_search.py *)

Links == {"", "https://a", "https://b"}
Contents == {"x", "y"}

\* The lists of search results the function can be given.
ResourceLists ==
    UNION { [1..n -> [link : Links, content : Contents]] : n \in 0..MaxResources }

\* A test that only looks at the link being non-empty.
keep_resource_nonempty(link, seen_links) == link # ""

\* `if resource.link and resource.link not in seen_links`
keep_resource(link, seen_links) == link # "" /\ link \notin seen_links

\* seen_links = set(); unique_resources = []; the loop has not started.
\* `given` is the caller's list as it was at the call, `first` the result of
\* the previous application when the function is applied to its own result.
NewDrop(resources, first, pass) ==
    [fn |-> "_drop_non_unique_link", resources |-> resources, given |-> resources,
     pc |-> "loop", i |-> 1, seen_links |-> {}, unique_resources |-> << >>,
     pass |-> pass, first |-> first]

\* One iteration of `for resource in resources`.
loop_resource ==
    /\ call.fn = "_drop_non_unique_link"
    /\ call.pc = "loop"
    /\ call.i <= Len(call.resources)
    /\ LET resource == call.resources[call.i] IN
       CallStep(IF keep_resource(resource.link, call.seen_links)
                THEN [call EXCEPT !.unique_resources = Append(@, resource),
                                  !.seen_links = @ \cup {resource.link},
                                  !.i = @ + 1]
                ELSE [call EXCEPT !.i = @ + 1])

\* return unique_resources
return_unique ==
    /\ call.fn = "_drop_non_unique_link"
    /\ call.pc = "loop"
    /\ call.i > Len(call.resources)
    /\ CallStep([call EXCEPT !.pc = "returned"])

\* The caller applies the function to the list it returned.
apply_again ==
    /\ call.fn = "_drop_non_unique_link"
    /\ call.pc = "returned"
    /\ call.pass = 1
    /\ CallStep(NewDrop(call.unique_resources, call.unique_resources, 2))

NextDrop ==
    \/ loop_resource
    \/ return_unique
    \/ apply_again

InitDrop == InitCall({ NewDrop(rs, << >>, 1) : rs \in ResourceLists })

SpecDrop == InitDrop /\ [][NextDrop]_vars

------------------------------------------------------------------------------
(* AgentPlan.from_json: agents/core.py *)

\* AgentPlan.capability_map: the name of each agent class -> the class.
capability_map ==
    [n \in {"deep_web_search", "audio_processing", "image_processing",
            "unstructured_data_processing", "code_writing_execution"} |->
        CASE n = "deep_web_search" -> "AgentDeepWebSearch"
          [] n = "audio_processing" -> "AgentAudioProcessor"
          [] n = "image_processing" -> "AgentImageProcessor"
          [] n = "unstructured_data_processing" -> "AgentUnstructuredDataProcessor"
          [] n = "code_writing_execution" -> "AgentCodeWriterExecutor"]

\* The capabilities a step of the plan can name: two registered ones and
\* two that are not (a tool's name, a misspelt agent name).
StepCapabilities == {"deep_web_search", "code_writing_execution", "web_search", "Deep_Web_Search"}
Activities == {"search the web", "plot the data"}

\* json_data["subplan"]: a list of steps {"capability": ..., "activity": ...}.
Subplans ==
    UNION { [1..n -> [capability : StepCapabilities, activity : Activities]] :
              n \in 0..MaxPlanLen }

\* An entry with the class first.
plan_entry_class_first(activity, cap_class) == <<cap_class, activity>>

\* subplan.append((activity, cap_class))
plan_entry(activity, cap_class) == <<activity, cap_class>>

\* subplan = []; the loop has not started.
NewFromJson(steps) ==
    [fn |-> "AgentPlan.from_json", json_data |-> [subplan |-> steps],
     pc |-> "loop", i |-> 1, subplan |-> << >>, result |-> None, error |-> NoError]

\* One iteration of `for step in json_data["subplan"]`.
loop_step ==
    /\ call.fn = "AgentPlan.from_json"
    /\ call.pc = "loop"
    /\ call.i <= Len(call.json_data.subplan)
    /\ LET step == call.json_data.subplan[call.i]
           cap_name == step.capability
           activity == step.activity
       IN  CallStep(IF cap_name \notin DOMAIN capability_map
                    THEN [call EXCEPT !.pc = "raised",
                                      !.error = <<"ValueError: Unknown capability: ", cap_name>>]
                    ELSE [call EXCEPT !.subplan =
                                          Append(@, plan_entry(activity, capability_map[cap_name])),
                                      !.i = @ + 1])

\* return AgentPlan(subplan=subplan)
return_plan ==
    /\ call.fn = "AgentPlan.from_json"
    /\ call.pc = "loop"
    /\ call.i > Len(call.json_data.subplan)
    /\ CallStep([call EXCEPT !.pc = "returned", !.result = [subplan |-> call.subplan]])

NextFromJson ==
    \/ loop_step
    \/ return_plan

InitFromJson == InitCall({ NewFromJson(steps) : steps \in Subplans })

SpecFromJson == InitFromJson /\ [][NextFromJson]_vars

------------------------------------------------------------------------------
(* Properties *)

\* Errors raised by an oracle (planner, reflection, tool selection, judge).
OracleErrors ==
    {"PlanningFailure", "ReflectionFailure", NoToolCallError, OtherValueError,
     "JSONDecodeError"}

RunOver == pc \in {"END", "raised"}

HasToolResult == "tool_call_result" \in DOMAIN state

LastMessage == state.context[Len(state.context)]

\* The context length before the current iteration's entry is appended.
LenBeforeIteration == Len(hist.ctx0) + hist.itersCompleted

\* C1: for each workflow variant with its declared cap N, a run in which
\* every tool selection succeeds and the judge always answers
\* completed=false performs exactly N tool invocations and then terminates
\* normally with step = N.
C1_CapBoundsRun ==
    ( /\ RunOver
      /\ hist.toolCalls >= 1
      /\ error \notin OracleErrors
      /\ \A i \in 1..Len(hist.decisions) : ~hist.decisions[i] )
    => ( /\ pc = "END"
         /\ hist.toolCalls = DeclaredMaxSteps(variant)
         /\ state.step = DeclaredMaxSteps(variant) )

\* C2: when the judge answers completed=true at the first evaluation, the
\* run has made exactly one tool invocation and is over with step = 1.
C2_FirstJudgeTrueEndsRun ==
    ( hist.decisions # << >> /\ hist.decisions[1] )
    => ( /\ pc = "END"
         /\ hist.toolCalls = 1
         /\ state.step = 1
         /\ hist.iter = 1 )

C2_Witness ==
    /\ pc = "END"
    /\ hist.decisions = <<TRUE>>
    /\ hist.toolCalls = 1

C4_OneStrengthenedRetry ==
    /\ Len(hist.selRequests) <= 2
    /\ ( hist.selOutcomes # << >> /\ hist.selOutcomes[1] = "no_tool_call"
         => /\ Len(hist.selRequests) = 2
            /\ hist.selRequests[2].user_msg
                 = hist.selRequests[1].user_msg \o StrengthenedInstruction )
    /\ ( Len(hist.selRequests) = 2 => hist.selOutcomes[1] = "no_tool_call" )

C4_Witness ==
    /\ pc = "process_tool_output"
    /\ hist.selOutcomes = <<"no_tool_call", "called">>
    /\ Len(hist.selRequests) = 2

\* C5: when the oracle signals "no tool call" on both requests of an
\* iteration, the run is over with the no-capability-selected error and step
\* has the value it had when the iteration began.
C5_TwoFailuresAreFatal ==
    hist.selOutcomes = <<"no_tool_call", "no_tool_call">>
    => ( /\ pc = "raised"
         /\ error = NoToolCallError
         /\ state.step = hist.stepAtIterStart )

C5_Witness ==
    /\ pc = "raised"
    /\ hist.selOutcomes = <<"no_tool_call", "no_tool_call">>
    /\ hist.stepAtIterStart = 2

\* C6: after k completed iterations the context holds (initial length) + k
\* entries, and an entry once in the context stays, unchanged, at its
\* position.
C6_ContextAppendOnly ==
    /\ [](pc \in {"plan_action", "END"} =>
            Len(state.context) = Len(hist.ctx0) + hist.itersCompleted)
    /\ [][ /\ Len(state'.context) >= Len(state.context)
           /\ \A i \in 1..Len(state.context) : state'.context[i] = state.context[i] ]_vars

C6_Witness ==
    /\ pc = "END"
    /\ hist.itersCompleted = 3
    /\ Len(hist.ctx0) = 1
    /\ Len(state.context) = 4

\* C7: no iteration invokes more than one tool, also when the selection
\* request is retried.
C7_OneToolPerIteration == hist.toolCallsIter <= 1

C7_Witness ==
    /\ hist.toolCallsIter = 1
    /\ Len(hist.selRequests) = 2
    /\ hist.iter = 2

\* C8: once process_tool_output has handled a FILE result with output x,
\* exactly one entry has been appended, its link is non-empty, and the file
\* the link names holds x.
C8_FileRoundTrip ==
    ( /\ hist.lastStage = "process_tool_output"
      /\ HasToolResult
      /\ state.tool_call_result.type = FILE_TOOL_OUTPUT )
    => ( /\ Len(state.context) = LenBeforeIteration + 1
         /\ LastMessage.link # << >>
         /\ LastMessage.link \in DOMAIN fs
         /\ fs[LastMessage.link] = state.tool_call_result.output )

\* C9: once process_tool_output has handled a STRING result with output x,
\* in every workflow variant exactly one entry has been appended, its
\* content is x and its link is the empty string.
C9_TextInline ==
    ( /\ hist.lastStage = "process_tool_output"
      /\ HasToolResult
      /\ state.tool_call_result.type = STRING_TOOL_OUTPUT )
    => ( /\ Len(state.context) = LenBeforeIteration + 1
         /\ LastMessage.content = state.tool_call_result.output
         /\ LastMessage.link = << >> )

\* C10: every iteration whose tool call was made, in every workflow variant,
\* consults the judge once, and the run ends after it exactly when the judge
\* reported the task accomplished or step >= the variant's MAX_STEPS.
C10_JudgeEveryIteration ==
    ( /\ hist.toolCallsIter = 1
      /\ pc \in {"plan_action", "END", "raised"}
      /\ error \notin OracleErrors )
    => ( /\ hist.judgeCallsIter = 1
         /\ hist.decisions # << >>
         /\ ( pc = "END" <=>
                \/ hist.decisions[Len(hist.decisions)]
                \/ state.step >= DeclaredMaxSteps(variant) ) )

\* A reply that {completed: bool, summary: string} can be read from: valid
\* JSON whose "completed" is a JSON boolean or one of the spellings of
\* true and false.
Parseable(reply) ==
    /\ reply.json
    /\ reply.completed \in {"True", "true", "yes", "1", "False", "false", "no", "0",
                            "<json true>", "<json false>"}

\* C11: a judge reply that cannot be parsed (not JSON, no "completed", or a
\* value that is neither true nor false) ends the run with an error; the
\* loop does not go on, and the reply is not taken as completed=false.
C11_UnparseableJudgeIsFatal ==
    ( hist.judgeReply # NoReply /\ ~Parseable(hist.judgeReply) )
    => pc = "raised"

\* text occurs in content
Contains(content, text) ==
    \E i \in 1..(Len(content) - Len(text) + 1) :
        SubSeq(content, i, i + Len(text) - 1) = text

\* C12: when the invoked tool raised, the iteration still appends one
\* Message whose content contains the error text, step is one more than at
\* the start of the iteration, and the run goes on to reflect.
C12_ToolFailureAbsorbed ==
    ( /\ hist.lastStage = "process_tool_output"
      /\ HasToolResult
      /\ state.tool_call_result.output = ToolErrorText )
    => ( /\ pc = "reflect"
         /\ Len(state.context) = LenBeforeIteration + 1
         /\ Contains(LastMessage.content, ToolErrorText)
         /\ state.step = hist.stepAtIterStart + 1 )

\* The planning oracle was unreachable or returned no text.
NoPlanText ==
    /\ hist.planAnswer # NoReply
    /\ (hist.planAnswer.kind = "raises" \/ hist.planAnswer.text = "")

\* C13: when the planning oracle is unreachable or returns no text, the run
\* aborts at planning with a fatal error, after exactly one request, and no
\* tool is invoked in that iteration.
C13_NoPlanIsFatal ==
    NoPlanText => ( /\ pc = "raised"
                    /\ error = "PlanningFailure"
                    /\ hist.planCallsIter = 1
                    /\ hist.toolCallsIter = 0 )

\* The stage order of the loop, and the two ways out of evaluate_completion.
StageOrder ==
    { <<"constructed", "plan_action">>,
      <<"plan_action", "execute_tool">>,
      <<"execute_tool", "process_tool_output">>,
      <<"process_tool_output", "reflect">>,
      <<"reflect", "evaluate_completion">>,
      <<"evaluate_completion", "plan_action">>,
      <<"evaluate_completion", "END">> }

JudgeAsked == hist.lastStage = "evaluate_completion" /\ hist.judgeCallsIter > 0

\* C15: the judge is given the whole context as it stands when it is asked:
\* every seed entry and every earlier iteration's Message, then the Message
\* of the current iteration as the last one, and nothing else.
C15_JudgeSeesWholeContext ==
    JudgeAsked =>
        /\ hist.judgePrompt.resources = str_context(state.context)
        /\ Len(hist.judgePrompt.resources) = Len(hist.ctx0) + hist.iter
        /\ SubSeq(hist.judgePrompt.resources, 1, Len(hist.ctx0)) = str_context(hist.ctx0)
        /\ hist.judgePrompt.resources[Len(hist.judgePrompt.resources)]
             = repr_message(LastMessage)
        /\ LastMessage.provided_by = state.tool_call_result.name

\* The judge asked in the second iteration of a run that had a seed context.
C15_Witness ==
    /\ JudgeAsked
    /\ hist.iter = 2
    /\ hist.ctx0 # << >>
    /\ Len(hist.judgePrompt.resources) = 3

\* C16: a deep web search run whose search tool is called ends normally
\* after exactly one search call, with one Message with a non-empty link
\* appended and step = 1 (the cap of the web search workflow is 1, so the
\* stop does not depend on what a judge would say).
C16_WebSearchOneShot ==
    ( /\ variant = "DeepWebSearchWorkflow"
      /\ RunOver
      /\ hist.toolCalls >= 1
      /\ error \notin OracleErrors )
    => ( /\ pc = "END"
         /\ hist.toolCalls = 1
         /\ Len(state.context) = Len(hist.ctx0) + 1
         /\ LastMessage.link # << >>
         /\ state.step = 1 )

\* C17: the kind recorded in tool_call_result is the registry's kind of the
\* selected tool name, whatever the payload: for every tool that
\* execute_tool can be answered with and every output, the recorded kind is
\* the registry's, so the same tool always gets the same kind.
C17_KindFromRegistry ==
    /\ HasToolResult =>
          state.tool_call_result.type = Registry[state.tool_call_result.name]
    /\ pc = "execute_tool" =>
          \A first \in SelectionOutcomes(tools), second \in SelectionOutcomes(tools) :
              LET res == execute_tool_body(state, tools, first, second) IN
              res.error = NoError =>
                  /\ res.state.tool_call_result.name \in DOMAIN Registry
                  /\ res.state.tool_call_result.type
                       = Registry[res.state.tool_call_result.name]

\* write_code was called and returned an error text: the kind is still STRING.
C17_Witness ==
    /\ HasToolResult
    /\ hist.lastStage = "execute_tool"
    /\ state.tool_call_result.name = "write_code"
    /\ state.tool_call_result.output = ToolErrorText
    /\ state.tool_call_result.type = STRING_TOOL_OUTPUT

\* C18: reflect stores its text in state["reflection"] and leaves the
\* context as it was: it appends nothing, also when it raises.
C18_ReflectLeavesContext ==
    [][ pc = "reflect" =>
            /\ state'.context = state.context
            /\ pc' # "raised" => state'.reflection \in ReflectionTexts
      ]_vars

\* reflect has returned in the second iteration.
C18_Witness ==
    /\ hist.lastStage = "reflect"
    /\ pc = "evaluate_completion"
    /\ hist.iter = 2
    /\ state.reflection \in ReflectionTexts

\* Values the answers field (the progress summary) could hold.
AnswersValues == {None, "short answer", "another answer"}

Distinct(seq) == \A i, j \in 1..Len(seq) : i # j => seq[i] # seq[j]

\* C20: every FILE write gets a reference that no earlier or concurrent
\* write of this run or of another run got, and that named no file before;
\* no step changes or removes a file that a write has finished.
C20_FreshReference ==
    [][ /\ Distinct(hist.refs')
        /\ \A i \in (Len(hist.refs) + 1)..Len(hist.refs') :
              hist.refs'[i] \notin DOMAIN fs
        /\ \A n \in DOMAIN fs :
              /\ n \in DOMAIN fs'
              /\ fs'[n] # fs[n] => n \in others.open
      ]_vars

\* Two FILE writes of this run and one of a concurrent run, in a directory
\* that already held a file.
C20_Witness ==
    /\ Len(hist.refs) = 3
    /\ others.started = 1
    /\ hist.iter = 2
    /\ TmpName(1) \in DOMAIN fs
    /\ fs[TmpName(1)] = <<"foreign">>
    /\ hist.lastStage = "process_tool_output"

\* C21: every tab recorded in opened_tabs belongs to one (collaborator,
\* session id) pair: two different sessions never have the same window
\* handle recorded, also while their activations interleave.
C21_TabOwnedByOneSession ==
    \A s1, s2 \in Sessions :
        ( /\ s1 # s2
          /\ TabId(s1) \in DOMAIN browser.opened_tabs
          /\ TabId(s2) \in DOMAIN browser.opened_tabs )
        => browser.opened_tabs[TabId(s1)] # browser.opened_tabs[TabId(s2)]

\* C22: two runs that execute concurrently do not touch each other's state:
\* whatever the interleaving of their nodes, the AgentState of each run
\* (its context list included) and its position are those the same oracle
\* answers give the run when it runs alone.
C22_RunsIndependent ==
    \A r \in Runs :
        /\ Deref(twin.run[r].state, twin.heap) = twin.run[r].alone
        /\ twin.run[r].pc = twin.run[r].alonePc

\* C23: the task of a run never changes: in every state of a run the task
\* field of the AgentState is the task the workflow was constructed with.
C23_TaskConstant == state.task = hist.task0

C23_Witness ==
    /\ pc = "END"
    /\ hist.iter = 2
    /\ state.plan # None
    /\ state.task = hist.task0

\* C24: the tools offered to the oracle are the tools of the workflow as
\* constructed: the same list in the planning request and in every
\* tool-selection request, in every iteration.
C24_ToolsFixed ==
    /\ tools = hist.tools0
    /\ hist.planCallsIter > 0 => hist.planTools = hist.tools0
    /\ \A i \in 1..Len(hist.selRequests) : hist.selRequests[i].tools = hist.tools0

C24_Witness ==
    /\ hist.iter = 2
    /\ hist.planTools = hist.tools0
    /\ Len(hist.selRequests) = 2
    /\ hist.selRequests[2].tools = hist.tools0
    /\ hist.tools0 # << >>

\* C25: run() on a freshly constructed workflow of any variant builds the
\* graph exactly once and enters the loop; when the graph was built before,
\* run() reuses it and builds nothing.
C25_RunBuildsOnce ==
    hist.lastStage # "init"
    => ( /\ graph = Compiled
         /\ builds = 1
         /\ ~(hist.lastStage = "run" /\ pc = "raised") )

C27_OtherFailureNotRetried ==
    [][ ( /\ pc = "execute_tool"
          /\ hist'.selOutcomes # << >>
          /\ hist'.selOutcomes[1] = "other_error" )
        => ( /\ Len(hist'.selRequests) = 1
             /\ hist'.selOutcomes = <<"other_error">>
             /\ pc' = "raised"
             /\ error' = OtherValueError
             /\ state'.step = state.step
             /\ state'.context = state.context ) ]_vars

C27_Witness ==
    /\ hist.lastStage = "execute_tool"
    /\ hist.selOutcomes = <<"other_error">>
    /\ Len(hist.selRequests) = 1
    /\ pc = "raised"
    /\ error = OtherValueError
    /\ hist.iter = 2
    /\ state.step = hist.stepAtIterStart

\* C28: when every external call returns or raises, every run ends, by
\* reaching END or by raising, and it never starts more iterations than
\* the cap of its variant, whatever the judge answers.
C28_RunTerminates ==
    /\ <>RunOver
    /\ [](hist.iter <= DeclaredMaxSteps(variant))

\* A run that used all iterations of the cap and ended normally.
C28_Witness ==
    /\ pc = "END"
    /\ hist.iter = MAX_STEPS
    /\ \A i \in 1..Len(hist.decisions) : ~hist.decisions[i]

\* C29: on the same tool result every workflow variant processes the output
\* as the base workflow does: the same outcome (next stage or error), the
\* same step, one appended entry with the same provided_by and the same
\* link; only the content may be worded differently.
C29_VariantsBehaveAsBase ==
    ( pc = "process_tool_output" /\ HasToolResult )
    => LET own == process_tool_output_of(variant, state, fs)
           base == base_process_tool_output(state, fs)
           last(r) == r.state.context[Len(r.state.context)]
       IN  /\ own.error = base.error
           /\ own.state.step = base.state.step
           /\ Len(own.state.context) = Len(base.state.context)
           /\ ( own.error = NoError /\ base.error = NoError )
              => ( /\ last(own).provided_by = last(base).provided_by
                   /\ last(own).link = last(base).link )

\* C30: step never exceeds the cap of the variant, and execute_tool is not
\* entered once step has reached the cap.
C30_StepWithinCap ==
    /\ state.step <= DeclaredMaxSteps(variant)
    /\ state.step <= MAX_STEPS
    /\ pc = "execute_tool" => state.step < DeclaredMaxSteps(variant)

\* The run that stopped at the cap: the judge never said completed, the
\* fifth tool call brought step to MAX_STEPS and the run ended.
C30_Witness ==
    /\ pc = "END"
    /\ state.step = MAX_STEPS
    /\ hist.toolCalls = MAX_STEPS
    /\ hist.decisions # << >>
    /\ ~hist.decisions[Len(hist.decisions)]

\* C31: a run that returns has made at least one tool call: its final
\* state has step >= 1 and a context with at least one entry more than the
\* caller seeded, the last entry being the one of the run's last tool
\* call, also when the seeded context was empty.
C31_ReturnedRunUsedATool ==
    pc = "END"
    => ( /\ hist.toolCalls >= 1
         /\ state.step >= 1
         /\ HasToolResult
         /\ Len(state.context) > Len(hist.ctx0)
         /\ LastMessage.provided_by = state.tool_call_result.name )

\* The shortest returning run, on an empty seeded context.
C31_Witness ==
    /\ pc = "END"
    /\ hist.ctx0 = << >>
    /\ state.step = 1
    /\ Len(state.context) = 1
    /\ LastMessage.provided_by = state.tool_call_result.name

\* C32: the entries a run has appended are in the order of its tool calls:
\* the i-th appended entry is provided by the tool of the i-th call, and
\* when process_tool_output has returned, the last entry is the one of the
\* current tool_call_result (its name, and its output as content or in the
\* file of its link).
C32_EntriesInCallOrder ==
    LET appended == Len(state.context) - Len(hist.ctx0) IN
    /\ appended <= Len(hist.toolNames)
    /\ \A i \in 1..appended :
          state.context[Len(hist.ctx0) + i].provided_by = hist.toolNames[i]
    /\ ( hist.lastStage = "process_tool_output" /\ pc # "raised" )
       => ( /\ appended = Len(hist.toolNames)
            /\ LastMessage.provided_by = state.tool_call_result.name
            /\ IF LastMessage.link = << >>
               THEN LastMessage.content = state.tool_call_result.output
               ELSE fs[LastMessage.link] = state.tool_call_result.output )

\* Two iterations that called different tools.
C32_Witness ==
    /\ hist.lastStage = "process_tool_output"
    /\ pc = "reflect"
    /\ Len(hist.toolNames) = 2
    /\ hist.toolNames[1] # hist.toolNames[2]
    /\ LastMessage.provided_by = hist.toolNames[2]
    /\ state.context[Len(state.context) - 1].provided_by = hist.toolNames[1]

\* a and b have the same keys and values, except possibly under the keys ks
SameExcept(a, b, ks) ==
    \A k \in (DOMAIN a \cup DOMAIN b) \ ks :
        k \in DOMAIN a /\ k \in DOMAIN b /\ a[k] = b[k]

\* The fields each stage may write.
OwnFields(stage) ==
    CASE stage = "plan_action" -> {"plan"}
      [] stage = "execute_tool" -> {"tool_call_result", "step"}
      [] stage = "process_tool_output" -> {"context"}
      [] stage = "reflect" -> {"reflection"}
      [] OTHER -> {}

\* C33: each stage writes only its own fields of the AgentState:
\* plan_action only plan, execute_tool only tool_call_result and step,
\* process_tool_output only context, reflect only reflection, and
\* evaluate_completion nothing.
C33_StagesWriteOwnFields ==
    [][ SameExcept(state, state', OwnFields(pc)) ]_vars

\* All five stages have run and each has written its field.
C33_Witness ==
    /\ hist.lastStage = "evaluate_completion"
    /\ pc = "plan_action"
    /\ state.plan \in PlanTexts
    /\ state.reflection \in ReflectionTexts
    /\ HasToolResult
    /\ state.step = 1
    /\ Len(state.context) = Len(hist.ctx0) + 1

C35_HandleOfOwnDriver ==
    \A i \in Instances :
        browsers.sess[i].pc \in {"switch_new", "switch_existing"}
        => \E n \in 1..Len(browsers.driver[i].window_handles) :
              browsers.driver[i].window_handles[n] = browsers.opened_tabs[SharedTabId]

\* C36: send_message appends exactly one {message, answer} record when it
\* returns an answer and leaves past_questions_answers unchanged when it
\* raises; it raises MessageNotSentError exactly when the last answer on
\* the page is empty or equal to the last recorded answer, so the answer
\* it returns is never empty and never the previously recorded one.
C36_OneRecordPerAnswer ==
    [][ LET past == chat.past_questions_answers
            rejected == \/ chat.last_answer_on_page = ""
                        \/ chat.last_answer_on_page = LastRecordedAnswer(past)
        IN  IF chat.pc = "validate"
            THEN /\ (chat'.error = "MessageNotSentError") <=> rejected
                 /\ rejected => chat'.past_questions_answers = past
                 /\ ~rejected =>
                       /\ chat'.error = NoError
                       /\ chat'.past_questions_answers =
                             Append(past, [message |-> chat.message,
                                           answer |-> chat.last_answer_on_page])
                       /\ chat'.returned = chat.last_answer_on_page
                       /\ chat'.returned # ""
                       /\ chat'.returned # LastRecordedAnswer(past)
            ELSE /\ chat'.past_questions_answers = past
                 /\ chat'.error # "MessageNotSentError" ]_vars

\* Three calls: one raised, two returned different answers, the last of
\* them in the third call.
C36_Witness ==
    /\ chat.pc = "idle"
    /\ chat.calls = 3
    /\ chat.error = NoError
    /\ Len(chat.past_questions_answers) = 2
    /\ chat.returned = chat.past_questions_answers[2].answer
    /\ chat.past_questions_answers[1].answer # chat.past_questions_answers[2].answer

\* C37: run_code never raises because of the code it is given: without a
\* python code block it returns the 'No python code block found' message
\* and starts no child; otherwise it returns a non-empty string, the
\* captured output or 'No output produced'.
C37_RunCodeNeverRaises ==
    call.fn = "run_code"
    => ( /\ call.pc # "raised"
         /\ call.pc = "returned"
            => ( /\ call.result # << >>
                 /\ ~re_search(call.text_with_code).found
                    => ( call.result = NoCodeBlockMessage /\ ~call.started ) ) )

\* The positions of rs whose resource is the first one with its link, the
\* link not being empty.
FirstOfLink(rs) ==
    { i \in 1..Len(rs) : /\ rs[i].link # ""
                         /\ \A j \in 1..(i-1) : rs[j].link # rs[i].link }

\* The k-th smallest element of a set of positions.
KthOf(positions, k) ==
    CHOOSE i \in positions : Cardinality({ j \in positions : j <= i }) = k

\* C38: _drop_non_unique_link returns a list in which no two resources
\* have the same link: the first resource of each distinct non-empty link,
\* in input order, without the resources whose link is empty; the list it
\* was given is unchanged; applied to its own result it returns the same.
C38_DropNonUniqueLink ==
    ( call.fn = "_drop_non_unique_link" /\ call.pc = "returned" )
    => LET result == call.unique_resources
           kept == FirstOfLink(call.given)
       IN  /\ \A i, j \in 1..Len(result) : i # j => result[i].link # result[j].link
           /\ \A i \in 1..Len(result) : result[i].link # ""
           /\ Len(result) = Cardinality(kept)
           /\ \A k \in 1..Len(result) : result[k] = call.given[KthOf(kept, k)]
           /\ call.resources = call.given
           /\ call.pass = 2 => result = call.first

\* A list with a repeated link, another link and an empty link, deduplicated
\* twice.
C38_Witness ==
    /\ call.fn = "_drop_non_unique_link"
    /\ call.pc = "returned"
    /\ call.pass = 2
    /\ Len(call.first) = 2
    /\ call.unique_resources = call.first
    /\ call.first[1].link # call.first[2].link

\* The agent class registered under each capability name.
RegisteredClass(cap) ==
    CASE cap = "deep_web_search" -> "AgentDeepWebSearch"
      [] cap = "audio_processing" -> "AgentAudioProcessor"
      [] cap = "image_processing" -> "AgentImageProcessor"
      [] cap = "unstructured_data_processing" -> "AgentUnstructuredDataProcessor"
      [] cap = "code_writing_execution" -> "AgentCodeWriterExecutor"
      [] OTHER -> "<not registered>"

\* C39: AgentPlan.from_json raises ValueError naming the first step whose
\* capability is not registered, and then returns no plan; when every
\* capability is registered it returns a plan with one entry per step, in
\* the order of the steps, each entry being the step's activity and the
\* agent class registered for its capability.
C39_FromJson ==
    ( call.fn = "AgentPlan.from_json" /\ call.pc \in {"returned", "raised"} )
    => LET steps == call.json_data.subplan
           unknown == { i \in 1..Len(steps) :
                          RegisteredClass(steps[i].capability) = "<not registered>" }
       IN  IF unknown # {}
           THEN LET first == CHOOSE i \in unknown : \A j \in unknown : i <= j IN
                /\ call.pc = "raised"
                /\ call.error = <<"ValueError: Unknown capability: ", steps[first].capability>>
                /\ call.result = None
           ELSE /\ call.pc = "returned"
                /\ call.error = NoError
                /\ Len(call.result.subplan) = Len(steps)
                /\ \A i \in 1..Len(steps) :
                      call.result.subplan[i]
                        = <<steps[i].activity, RegisteredClass(steps[i].capability)>>

\* A plan of three steps with two different capabilities was converted.
C39_Witness ==
    /\ call.fn = "AgentPlan.from_json"
    /\ call.pc = "returned"
    /\ Len(call.result.subplan) = 3
    /\ call.result.subplan[1] = <<"search the web", "AgentDeepWebSearch">>
    /\ call.result.subplan[2] = <<"plot the data", "AgentCodeWriterExecutor">>
    /\ call.result.subplan[3] = <<"search the web", "AgentDeepWebSearch">>

====
